---- MODULE Spec2Model ----
(***************************************************************************)
(* Model of the Memcached Munin plugin (pymunin/plugins/memcachedstats.py). *)
(*                                                                         *)
(* One invocation of the plugin is one process: the constructor restores   *)
(* the saved stats, builds the graphs (the schema) and retrieveVals sets   *)
(* the value of every field.  The state file is the only state that        *)
(* survives from one invocation to the next.                               *)
(*                                                                         *)
(* Python's None is the empty tuple and a value v that is there is <<v>>,  *)
(* so that a dictionary entry whose value is None (stats['set_hits'] when  *)
(* total_items is missing) differs from a key that is not in the           *)
(* dictionary.  A dictionary is a function whose DOMAIN is its key set.    *)
(* The values of the hit percent graph are kept in hundredths (7500 is     *)
(* 75.00), which is what round(val, 2) can deliver.                        *)
(***************************************************************************)
EXTENDS Integers, Sequences, FiniteSets, TLC

VARIABLES
    store,       \* the state file: None, or the stats saved by saveState
    enabled,     \* graph names enabled by include_graphs / exclude_graphs,
                 \* read from the environment by the constructor
    pc,          \* position of the invocation
    _stats,      \* self._stats
    _prev_stats, \* self._prev_stats
    graphs,      \* graphs appended by the constructor, in order
    stats,       \* the local variable stats of retrieveVals
    vals,        \* the setGraphVal calls that returned, in order
    error,       \* the exception that ended the invocation, "" if none
    source,      \* what getStats() answered in this invocation: "" (not
                 \* called yet), "stats" or "unavailable"
    lastStats    \* history: stats of the last retrieveVals that got any

vars == <<store, enabled, pc, _stats, _prev_stats, graphs, stats, vals,
          error, source, lastStats>>

None == <<>>
Some(v) == <<v>>
Val(o) == o[1]

EmptyDict == [k \in {} |-> None]

(***************************************************************************)
(* Bounds of the inputs.                                                   *)
(***************************************************************************)
\* A snapshot lacks at most this many counters, adjacent in the listing.
MaxMissing == 2
\* The hit counters have advanced by 0..MaxHits when a snapshot is taken.
MaxHits == 2
\* The miss counters have advanced by 0..MaxMisses.
MaxMisses == 1
\* At most this many graphs, adjacent in the catalog, are disabled.
MaxDisabled == 1

(***************************************************************************)
(* The counters of the server's stats listing that the plugin reads, in    *)
(* the order of the listing.                                               *)
(***************************************************************************)
CounterSeq ==
    << "curr_connections", "total_connections", "cmd_get", "cmd_set",
       "get_hits", "get_misses", "delete_misses", "delete_hits",
       "incr_misses", "incr_hits", "decr_misses", "decr_hits",
       "cas_misses", "cas_hits", "cas_badval", "auth_cmds", "auth_errors",
       "bytes_read", "bytes_written", "bytes", "curr_items", "total_items",
       "evictions", "reclaimed" >>

Counters == {CounterSeq[i] : i \in 1..Len(CounterSeq)}

CounterIndex(k) == CHOOSE i \in 1..Len(CounterSeq) : CounterSeq[i] = k

HitCounters == {"get_hits", "delete_hits", "incr_hits", "decr_hits",
                "cas_hits", "total_items"}

MissCounters == {"get_misses", "delete_misses", "incr_misses",
                 "decr_misses", "cas_misses", "cas_badval"}

\* The value the server reports for counter k after h hits and m misses.
CounterValue(k, h, m) ==
    IF k \in HitCounters THEN CounterIndex(k) + h
    ELSE IF k \in MissCounters THEN CounterIndex(k) + m
    ELSE IF k = "cmd_set" THEN CounterIndex("total_items") + h + m
    ELSE IF k = "cmd_get"
         THEN CounterIndex("get_hits") + h + CounterIndex("get_misses") + m
    ELSE CounterIndex(k)

\* Runs of at most MaxMissing adjacent counters of the listing.
MissingRuns ==
    { r \in { {CounterSeq[i] : i \in a..b} :
                a \in 1..Len(CounterSeq), b \in 0..Len(CounterSeq) } :
        Cardinality(r) <= MaxMissing }

\* What MemcachedInfo.getStats() returns when the server answers: the
\* counters but the missing ones, after h hits and m misses.
ServerStats(missing, h, m) ==
    [k \in Counters \ missing |-> Some(CounterValue(k, h, m))]

\* The snapshots the server can deliver: one that lacks a run of counters,
\* or one of all counters after some hits and misses.
Snapshots ==
    { ServerStats(r, 0, 0) : r \in MissingRuns } \cup
    { ServerStats({}, h, m) : h \in 0..MaxHits, m \in 0..MaxMisses }

\* getStats(): None when the server cannot be reached.
GetStatsResults == {None} \cup {Some(s) : s \in Snapshots}

(***************************************************************************)
(* Dictionary access.                                                      *)
(***************************************************************************)
\* key in d
In(k, d) == k \in DOMAIN d

\* d.get(key)
Get(d, k) == IF k \in DOMAIN d THEN d[k] ELSE None

\* d[key] = value
Put(d, k, v) == [x \in DOMAIN d \cup {k} |-> IF x = k THEN v ELSE d[x]]

(***************************************************************************)
(* The constructor: the graphs it appends.                                 *)
(***************************************************************************)
GraphSeq ==
    << "memcached_connections", "memcached_items", "memcached_memory",
       "memcached_connrate", "memcached_traffic", "memcached_reqrate",
       "memcached_statget", "memcached_statset", "memcached_statdel",
       "memcached_statcas", "memcached_statincrdecr", "memcached_statevict",
       "memcached_statauth", "memcached_hitpct" >>

GraphNames == {GraphSeq[i] : i \in 1..Len(GraphSeq)}

\* Sets of enabled graphs the environment can configure: all graphs but a
\* run of at most MaxDisabled graphs of the catalog.
EnabledRuns ==
    { e \in { GraphNames \ {GraphSeq[i] : i \in a..b} :
                a \in 1..Len(GraphSeq), b \in 0..Len(GraphSeq) } :
        Cardinality(GraphNames \ e) <= MaxDisabled }

\* Those of them that disable the last graphs of the catalog.
EnabledTails ==
    { {GraphSeq[i] : i \in 1..(Len(GraphSeq) - d)} : d \in 0..MaxDisabled }

\* MuninPlugin.graphEnabled(name)
GraphEnabled(en, name) == name \in en

\* GraphReq with a slip: the traffic graph tests bytes_read only.
GraphReq_TrafficReadOnly ==
    [ memcached_connections |-> {"curr_connections"},
      memcached_items |-> {"curr_items"},
      memcached_memory |-> {"bytes"},
      memcached_connrate |-> {"total_connections"},
      memcached_traffic |-> {"bytes_read"},
      memcached_reqrate |-> {"cmd_set", "cmd_get"},
      memcached_statget |-> {"cmd_get"},
      memcached_statset |-> {"cmd_set"},
      memcached_statdel |-> {"delete_hits"},
      memcached_statcas |-> {"cas_hits"},
      memcached_statincrdecr |-> {"incr_hits", "decr_hits"},
      memcached_statevict |-> {"evictions"},
      memcached_statauth |-> {"auth_cmds"},
      memcached_hitpct |-> {"cmd_set", "cmd_get"} ]

\* The counters each "if (self.graphEnabled(...) and ... in stats)" tests.
GraphReq ==
    [ memcached_connections |-> {"curr_connections"},
      memcached_items |-> {"curr_items"},
      memcached_memory |-> {"bytes"},
      memcached_connrate |-> {"total_connections"},
      memcached_traffic |-> {"bytes_read", "bytes_written"},
      memcached_reqrate |-> {"cmd_set", "cmd_get"},
      memcached_statget |-> {"cmd_get"},
      memcached_statset |-> {"cmd_set"},
      memcached_statdel |-> {"delete_hits"},
      memcached_statcas |-> {"cas_hits"},
      memcached_statincrdecr |-> {"incr_hits", "decr_hits"},
      memcached_statevict |-> {"evictions"},
      memcached_statauth |-> {"auth_cmds"},
      memcached_hitpct |-> {"cmd_set", "cmd_get"} ]

\* The (fname, fstat) pairs of the loop that adds the fields of reqrate.
ReqRateFields ==
    << <<"set", "cmd_set">>, <<"get", "cmd_get">>, <<"del", "delete_hits">>,
       <<"cas", "cas_hits">>, <<"incr", "incr_hits">>,
       <<"decr", "decr_hits">> >>

\* HitPctFields with a slip: each field is tested on its miss counter.
HitPctFields_GatedOnMisses ==
    << <<"get", "get_misses">>, <<"del", "delete_misses">>,
       <<"cas", "cas_misses">>, <<"incr", "incr_misses">>,
       <<"decr", "decr_misses">> >>

\* The (fname, fstat) pairs of the loop that adds the fields of hitpct.
HitPctFields ==
    << <<"get", "cmd_get">>, <<"del", "delete_hits">>, <<"cas", "cas_hits">>,
       <<"incr", "incr_hits">>, <<"decr", "decr_hits">> >>

\* for (fname, fstat, fstr) in pairs: if fstat in stats: addField(fname)
AddFieldsIf(pairs, st) ==
    LET kept == SelectSeq(pairs, LAMBDA p : In(p[2], st))
    IN  [i \in 1..Len(kept) |-> kept[i][1]]

\* The fields the constructor adds to graph g, in the order of addField.
GraphFields(g, st) ==
    CASE g = "memcached_connections" -> <<"conn">>
      [] g = "memcached_items" -> <<"items">>
      [] g = "memcached_memory" -> <<"bytes">>
      [] g = "memcached_connrate" -> <<"conn">>
      [] g = "memcached_traffic" -> <<"rxbytes", "txbytes">>
      [] g = "memcached_reqrate" -> AddFieldsIf(ReqRateFields, st)
      [] g = "memcached_statget" -> <<"hit", "miss", "total">>
      [] g = "memcached_statset" -> <<"hit", "miss", "total">>
      [] g = "memcached_statdel" -> <<"hit", "miss", "total">>
      [] g = "memcached_statcas" -> <<"hit", "miss", "badval", "total">>
      [] g = "memcached_statincrdecr" ->
            <<"incr_hit", "decr_hit", "incr_miss", "decr_miss", "total">>
      [] g = "memcached_statevict" ->
            <<"evict">> \o (IF In("reclaimed", st) THEN <<"reclaim">>
                            ELSE <<>>)
      [] g = "memcached_statauth" -> <<"reqs", "errors">>
      [] g = "memcached_hitpct" ->
            <<"set">> \o AddFieldsIf(HitPctFields, st)

\* One "if ...: graph = MuninGraph(...); ...; self.appendGraph(name, graph)".
GraphBlock(g, st, en) ==
    IF GraphEnabled(en, g) /\ \A k \in GraphReq[g] : In(k, st)
    THEN << [name |-> g, fields |-> GraphFields(g, st)] >>
    ELSE <<>>

RECURSIVE AppendGraphs(_, _, _)
\* The blocks of the constructor from graph number i on.
AppendGraphs(i, st, en) ==
    IF i > Len(GraphSeq) THEN <<>>
    ELSE GraphBlock(GraphSeq[i], st, en) \o AppendGraphs(i + 1, st, en)

\* MuninPlugin.hasGraph(name)
HasGraph(gs, g) == \E i \in 1..Len(gs) : gs[i].name = g

\* MuninPlugin.graphHasField(graph_name, field_name)
GraphHasField(gs, g, f) ==
    \E i \in 1..Len(gs) :
        /\ gs[i].name = g
        /\ \E j \in 1..Len(gs[i].fields) : gs[i].fields[j] = f

(***************************************************************************)
(* retrieveVals: the values it sets.                                       *)
(***************************************************************************)
\* Enrich with a slip: the difference is taken the other way round.
Enrich_Swapped(st) ==
    LET s1 == Put(st, "set_hits", Get(st, "total_items"))
    IN  IF In("cmd_set", s1) /\ In("total_items", s1)
        THEN Put(s1, "set_misses",
                 Some(Val(s1["total_items"]) - Val(s1["cmd_set"])))
        ELSE s1

\* stats['set_hits'] = ...; if ...: stats['set_misses'] = ...
Enrich(st) ==
    LET s1 == Put(st, "set_hits", Get(st, "total_items"))
    IN  IF In("cmd_set", s1) /\ In("total_items", s1)
        THEN Put(s1, "set_misses",
                 Some(Val(s1["cmd_set"]) - Val(s1["total_items"])))
        ELSE s1

RECURSIVE SumPresent(_)
\* The sum of the items of seq that are not None.
SumPresent(seq) ==
    IF seq = <<>> THEN 0
    ELSE (IF Head(seq) = None THEN 0 ELSE Val(Head(seq)))
         + SumPresent(Tail(seq))

\* pysysinfo.util.safe_sum(seq)
safe_sum(seq) ==
    IF \A i \in 1..Len(seq) : seq[i] = None THEN None
    ELSE Some(SumPresent(seq))

\* The setGraphVal calls of retrieveVals before the hit percent loop, in
\* order: graph, field, whether the call is under "if graphHasField", how
\* the value is made ("get": stats.get(key), "sum": safe_sum of the
\* stats.get(key)) and the keys.
ValueCalls ==
    << <<"memcached_connections", "conn", FALSE, "get", <<"curr_connections">> >>,
       <<"memcached_items", "items", FALSE, "get", <<"curr_items">> >>,
       <<"memcached_memory", "bytes", FALSE, "get", <<"bytes">> >>,
       <<"memcached_connrate", "conn", FALSE, "get", <<"total_connections">> >>,
       <<"memcached_traffic", "rxbytes", FALSE, "get", <<"bytes_read">> >>,
       <<"memcached_traffic", "txbytes", FALSE, "get", <<"bytes_written">> >>,
       <<"memcached_reqrate", "set", FALSE, "get", <<"cmd_set">> >>,
       <<"memcached_reqrate", "get", FALSE, "get", <<"cmd_get">> >>,
       <<"memcached_reqrate", "del", TRUE, "sum",
         <<"delete_hits", "delete_misses">> >>,
       <<"memcached_reqrate", "cas", TRUE, "sum",
         <<"cas_hits", "cas_misses", "cas_badval">> >>,
       <<"memcached_reqrate", "incr", TRUE, "sum",
         <<"incr_hits", "incr_misses">> >>,
       <<"memcached_reqrate", "decr", TRUE, "sum",
         <<"decr_hits", "decr_misses">> >>,
       <<"memcached_statget", "hit", FALSE, "get", <<"get_hits">> >>,
       <<"memcached_statget", "miss", FALSE, "get", <<"get_misses">> >>,
       <<"memcached_statget", "total", FALSE, "sum",
         <<"get_hits", "get_misses">> >>,
       <<"memcached_statset", "hit", FALSE, "get", <<"set_hits">> >>,
       <<"memcached_statset", "miss", FALSE, "get", <<"set_misses">> >>,
       <<"memcached_statset", "total", FALSE, "sum",
         <<"set_hits", "set_misses">> >>,
       <<"memcached_statdel", "hit", FALSE, "get", <<"delete_hits">> >>,
       <<"memcached_statdel", "miss", FALSE, "get", <<"delete_misses">> >>,
       <<"memcached_statdel", "total", FALSE, "sum",
         <<"delete_hits", "delete_misses">> >>,
       <<"memcached_statcas", "hit", FALSE, "get", <<"cas_hits">> >>,
       <<"memcached_statcas", "miss", FALSE, "get", <<"cas_misses">> >>,
       <<"memcached_statcas", "badval", FALSE, "get", <<"cas_badval">> >>,
       <<"memcached_statcas", "total", FALSE, "sum",
         <<"cas_hits", "cas_misses", "cas_badval">> >>,
       <<"memcached_statincrdecr", "incr_hit", FALSE, "get", <<"incr_hits">> >>,
       <<"memcached_statincrdecr", "decr_hit", FALSE, "get", <<"decr_hits">> >>,
       <<"memcached_statincrdecr", "incr_miss", FALSE, "get",
         <<"incr_misses">> >>,
       <<"memcached_statincrdecr", "decr_miss", FALSE, "get",
         <<"decr_misses">> >>,
       <<"memcached_statincrdecr", "total", FALSE, "sum",
         <<"incr_hits", "decr_hits", "incr_misses", "decr_misses">> >>,
       <<"memcached_statevict", "evict", FALSE, "get", <<"evictions">> >>,
       <<"memcached_statevict", "reclaim", TRUE, "get", <<"reclaimed">> >>,
       <<"memcached_statauth", "reqs", FALSE, "get", <<"auth_cmds">> >>,
       <<"memcached_statauth", "errors", FALSE, "get", <<"auth_errors">> >> >>

\* CallValue with a slip: a sum is made of stats.get(key, 0).
CallValue_ZeroDefault(row, st) ==
    IF row[4] = "get" THEN Get(st, row[5][1])
    ELSE safe_sum([i \in 1..Len(row[5]) |->
                     IF In(row[5][i], st) THEN st[row[5][i]] ELSE Some(0)])

\* The value one row of ValueCalls passes to setGraphVal.
CallValue(row, st) ==
    IF row[4] = "get" THEN Get(st, row[5][1])
    ELSE safe_sum([i \in 1..Len(row[5]) |-> Get(st, row[5][i])])

\* Whether retrieveVals makes the call of a row: "if self.hasGraph(...)"
\* and, around some calls, "if self.graphHasField(...)".
CallMade(row, gs) ==
    HasGraph(gs, row[1]) /\ (row[3] => GraphHasField(gs, row[1], row[2]))

\* The calls of lines 318-416, in order.
PlainCalls(gs, st) ==
    LET made == SelectSeq(ValueCalls, LAMBDA row : CallMade(row, gs))
    IN  [i \in 1..Len(made) |->
           [graph |-> made[i][1], field |-> made[i][2],
            val |-> CallValue(made[i], st), exc |-> ""]]

\* HitPctTriples with a slip: the counters of delete and of cas are under
\* each other's field name.
HitPctTriples_Misnamed ==
    << <<"set", "set_hits", "set_misses">>,
       <<"get", "get_hits", "get_misses">>,
       <<"cas", "delete_hits", "delete_misses">>,
       <<"del", "cas_hits", "cas_misses">>,
       <<"incr", "incr_hits", "incr_misses">>,
       <<"decr", "decr_hits", "decr_misses">> >>

\* The (field_name, field_hits, field_misses) triples of the last loop.
HitPctTriples ==
    << <<"set", "set_hits", "set_misses">>,
       <<"get", "get_hits", "get_misses">>,
       <<"del", "delete_hits", "delete_misses">>,
       <<"cas", "cas_hits", "cas_misses">>,
       <<"incr", "incr_hits", "incr_misses">>,
       <<"decr", "decr_hits", "decr_misses">> >>

\* "if prev_stats:" is false for None and for the empty dictionary.
Truthy(prev) == prev # None /\ DOMAIN Val(prev) # {}

\* HitPctGuard with a slip: "field_misses in stats" is not tested.
HitPctGuard_NoMissInStats(hk, mk, st, pv) ==
    In(hk, st) /\ In(hk, pv) /\ In(mk, pv)

\* field_hits in stats and field_hits in prev_stats
\* and field_misses in stats and field_misses in prev_stats
HitPctGuard(hk, mk, st, pv) ==
    In(hk, st) /\ In(hk, pv) /\ In(mk, st) /\ In(mk, pv)

\* The integer nearest to n / d for d > 0, halves away from zero as
\* Python 2's round does (Python 3 rounds them to even).
RoundDiv(n, d) ==
    IF n >= 0 THEN (2 * n + d) \div (2 * d)
    ELSE -((2 * (-n) + d) \div (2 * d))

\* HitPctValue with a slip: the hundredths are cut, not rounded.
HitPctValue_Truncated(hits, misses) ==
    LET total == hits + misses
    IN  IF total > 0 THEN (10000 * hits) \div total ELSE 0

\* HitPctValue with a slip: a negative delta counts as 0.
HitPctValue_Clamped(hits, misses) ==
    LET h == IF hits < 0 THEN 0 ELSE hits
        m == IF misses < 0 THEN 0 ELSE misses
    IN  IF h + m > 0 THEN RoundDiv(10000 * h, h + m) ELSE 0

\* if total > 0: val = 100.0 * hits / total, else: val = 0; round(val, 2),
\* in hundredths.
HitPctValue(hits, misses) ==
    LET total == hits + misses
    IN  IF total > 0 THEN RoundDiv(10000 * hits, total) ELSE 0

\* The exception of stats[k] - prev_stats[k], "" if there is none.
SubExc(k, st, pv) ==
    IF ~In(k, st) \/ ~In(k, pv) THEN "KeyError"
    ELSE IF st[k] = None \/ pv[k] = None THEN "TypeError"
    ELSE ""

\* The body of "if prev_stats:" for one triple: no call, or one call.
HitPctCall(t, st, pv) ==
    IF ~HitPctGuard(t[2], t[3], st, pv) THEN <<>>
    ELSE IF SubExc(t[2], st, pv) # ""
         THEN << [graph |-> "memcached_hitpct", field |-> t[1],
                  val |-> None, exc |-> SubExc(t[2], st, pv)] >>
    ELSE IF SubExc(t[3], st, pv) # ""
         THEN << [graph |-> "memcached_hitpct", field |-> t[1],
                  val |-> None, exc |-> SubExc(t[3], st, pv)] >>
    ELSE << [graph |-> "memcached_hitpct", field |-> t[1],
             val |-> Some(HitPctValue(Val(st[t[2]]) - Val(pv[t[2]]),
                                      Val(st[t[3]]) - Val(pv[t[3]]))),
             exc |-> ""] >>

RECURSIVE HitPctLoop(_, _, _)
\* The loop over the triples from number i on.
HitPctLoop(i, st, pv) ==
    IF i > Len(HitPctTriples) THEN <<>>
    ELSE HitPctCall(HitPctTriples[i], st, pv) \o HitPctLoop(i + 1, st, pv)

\* HitPctCalls with a slip: without restored stats the loop compares stats
\* with itself.
HitPctCalls_PrevDefaulted(gs, st, prev) ==
    IF HasGraph(gs, "memcached_hitpct")
    THEN HitPctLoop(1, st, IF Truthy(prev) THEN Val(prev) ELSE st)
    ELSE <<>>

\* The calls of lines 417-440.
HitPctCalls(gs, st, prev) ==
    IF HasGraph(gs, "memcached_hitpct") /\ Truthy(prev)
    THEN HitPctLoop(1, st, Val(prev))
    ELSE <<>>

\* Every setGraphVal call retrieveVals would make, in order.
Calls(gs, st, prev) == PlainCalls(gs, st) \o HitPctCalls(gs, st, prev)

\* A call that raises: the subtraction that makes its value does, or
\* MuninPlugin.setGraphVal does, for a field the graph does not have.
Raises(c, gs) == c.exc # "" \/ ~GraphHasField(gs, c.graph, c.field)

\* The calls made one after the other up to the first that raises: the
\* calls that returned, and the exception ("" when every call returned).
RunCalls(calls, gs) ==
    LET bad == {i \in 1..Len(calls) : Raises(calls[i], gs)}
        first == CHOOSE i \in bad : \A j \in bad : i <= j
        n == IF bad = {} THEN Len(calls) ELSE first - 1
    IN  [vals |-> [i \in 1..n |-> [graph |-> calls[i].graph,
                                   field |-> calls[i].field,
                                   val |-> calls[i].val]],
         error |-> IF bad = {} THEN ""
                   ELSE IF calls[first].exc # "" THEN calls[first].exc
                   ELSE "AttributeError"]

(***************************************************************************)
(* The invocations.                                                        *)
(***************************************************************************)
NoVals == <<>>

Init ==
    /\ store = None
    /\ enabled = {}
    /\ pc = "start"
    /\ _stats = None
    /\ _prev_stats = None
    /\ graphs = <<>>
    /\ stats = None
    /\ vals = NoVals
    /\ error = ""
    /\ source = ""
    /\ lastStats = None

\* How source records an answer of getStats().
Answer(got) == IF got = None THEN "unavailable" ELSE "stats"

\* BuildGraphs with a slip: "if stats is None: raise" is missing and the
\* tests of the blocks see no counter.
BuildGraphs_NoRaise(st, en) ==
    /\ pc' = "built"
    /\ error' = ""
    /\ graphs' = AppendGraphs(1, IF st = None THEN EmptyDict ELSE Val(st), en)

\* The constructor from "if stats is None" on, en being the enabled graphs.
BuildGraphs(st, en) ==
    IF st = None
    THEN /\ pc' = "fatal"
         /\ error' = "Exception"
         /\ graphs' = <<>>
    ELSE /\ pc' = "built"
         /\ error' = ""
         /\ graphs' = AppendGraphs(1, Val(st), en)

\* MuninMemcachedPlugin.__init__ in an environment that enables one of
\* choices: getStats() is called only when no state is restored.
ConstructWith(choices) ==
    /\ pc = "start"
    /\ enabled' \in choices
    /\ _prev_stats' = store
    /\ \/ /\ store = None
          /\ \E got \in GetStatsResults :
               /\ _stats' = got
               /\ source' = Answer(got)
               /\ BuildGraphs(got, enabled')
       \/ /\ store # None
          /\ _stats' = None
          /\ source' = ""
          /\ BuildGraphs(store, enabled')
    /\ UNCHANGED <<store, stats, vals, lastStats>>

\* StatsSaved with a slip: the state is saved before the two assignments.
StatsSaved_Early(st) == st

\* The constructor of an invocation that goes on to retrieveVals or ends.
Construct == ConstructWith(EnabledTails)

\* The dictionary self.saveState(stats) writes: stats after the two
\* assignments before it.
StatsSaved(st) == Enrich(st)

\* retrieveVals from "if stats is None" to self.saveState(stats).
SaveStats(st) ==
    IF st = None
    THEN /\ pc' = "fatal"
         /\ error' = "Exception"
         /\ UNCHANGED <<store, _stats, stats, lastStats>>
    ELSE /\ pc' = "saved"
         /\ error' = ""
         /\ stats' = Some(Enrich(Val(st)))
         /\ _stats' = IF _stats = None THEN None ELSE stats'
         /\ store' = Some(StatsSaved(Val(st)))
         /\ lastStats' = stats'

\* retrieveVals up to self.saveState(stats): getStats() is called only when
\* the constructor did not call it.
RetrieveValsSave ==
    /\ pc = "built"
    /\ \/ /\ _stats = None
          /\ \E got \in GetStatsResults :
               /\ source' = Answer(got)
               /\ SaveStats(got)
       \/ /\ _stats # None
          /\ source' = source
          /\ SaveStats(_stats)
    /\ UNCHANGED <<enabled, _prev_stats, graphs, vals>>

\* GraphsAfterCalls with a slip: the graphs are built again, from stats.
GraphsAfterCalls_Rebuilt(gs, st, en) == AppendGraphs(1, st, en)

\* The graphs after retrieveVals, which appends none and adds no field,
\* whatever stats holds.
GraphsAfterCalls(gs, st, en) == gs

\* retrieveVals from there on: the setGraphVal calls.
RetrieveValsSet ==
    /\ pc = "saved"
    /\ \E r \in {RunCalls(Calls(graphs, Val(stats), _prev_stats), graphs)} :
         /\ vals' = r.vals
         /\ error' = r.error
         /\ pc' = IF r.error = "" THEN "done" ELSE "failed"
    /\ graphs' = GraphsAfterCalls(graphs, Val(stats), enabled)
    /\ UNCHANGED <<store, enabled, _stats, _prev_stats, stats, source,
                   lastStats>>

\* The process ends and munin runs the plugin again.
Exit ==
    /\ pc \in {"built", "done", "failed", "fatal"}
    /\ pc' = "start"
    /\ enabled' = {}
    /\ _stats' = None
    /\ _prev_stats' = None
    /\ graphs' = <<>>
    /\ stats' = None
    /\ vals' = NoVals
    /\ error' = ""
    /\ source' = ""
    /\ UNCHANGED <<store, lastStats>>

Next == Construct \/ RetrieveValsSave \/ RetrieveValsSet \/ Exit

Spec == Init /\ [][Next]_vars

(***************************************************************************)
(* The invocations that print the configuration: the constructor runs and  *)
(* the process ends.  They write no state, so they start from any state    *)
(* file that the invocations of Spec leave.                                *)
(***************************************************************************)
SavedStates == {None} \cup {Some(StatsSaved(s)) : s \in Snapshots}

InitConfig ==
    /\ store \in SavedStates
    /\ enabled = {}
    /\ pc = "start"
    /\ _stats = None
    /\ _prev_stats = None
    /\ graphs = <<>>
    /\ stats = None
    /\ vals = NoVals
    /\ error = ""
    /\ source = ""
    /\ lastStats = store

ConstructConfig == ConstructWith(EnabledRuns)

NextConfig == ConstructConfig \/ Exit

SpecConfig == InitConfig /\ [][NextConfig]_vars

(***************************************************************************)
(* The invocations of Spec, the first of which finds any state file: none, *)
(* an empty dictionary, the stats of the server as they are, or the stats  *)
(* an earlier retrieveVals saved.                                          *)
(***************************************************************************)
RestoredStates ==
    SavedStates \cup {Some(EmptyDict)} \cup {Some(s) : s \in Snapshots}

InitRestored ==
    /\ store \in RestoredStates
    /\ enabled = {}
    /\ pc = "start"
    /\ _stats = None
    /\ _prev_stats = None
    /\ graphs = <<>>
    /\ stats = None
    /\ vals = NoVals
    /\ error = ""
    /\ source = ""
    /\ lastStats = store

SpecRestored == InitRestored /\ [][Next]_vars

(***************************************************************************)
(* What the claims read.                                                   *)
(***************************************************************************)
\* The invocation is past the constructor, which built the graphs.
Built == pc \in {"built", "saved", "done", "failed"}

\* The stats the constructor built the graphs from.
BuildStats == IF _prev_stats # None THEN Val(_prev_stats) ELSE Val(_stats)

\* A counter that stats holds with a value.
Present(k, st) == k \in DOMAIN st /\ st[k] # None

\* setGraphVal returned for the field.
IsSet(g, f) == \E i \in 1..Len(vals) : vals[i].graph = g /\ vals[i].field = f

\* The value of the field: the one of the last call that returned, and
\* None ("absent") when there is none.
ValueOf(g, f) ==
    IF IsSet(g, f)
    THEN LET last == CHOOSE i \in 1..Len(vals) :
                        /\ vals[i].graph = g /\ vals[i].field = f
                        /\ \A j \in (i + 1)..Len(vals) :
                             ~(vals[j].graph = g /\ vals[j].field = f)
         IN  vals[last].val
    ELSE None

(***************************************************************************)
(* C1                                                                      *)
(***************************************************************************)
\* The graph-level requirement of each graph, from the catalog of the
\* specification.
C1_Requires ==
    [ memcached_connections |-> {"curr_connections"},
      memcached_items |-> {"curr_items"},
      memcached_memory |-> {"bytes"},
      memcached_connrate |-> {"total_connections"},
      memcached_traffic |-> {"bytes_read", "bytes_written"},
      memcached_reqrate |-> {"cmd_set", "cmd_get"},
      memcached_statget |-> {"cmd_get"},
      memcached_statset |-> {"cmd_set"},
      memcached_statdel |-> {"delete_hits"},
      memcached_statcas |-> {"cas_hits"},
      memcached_statincrdecr |-> {"incr_hits", "decr_hits"},
      memcached_statevict |-> {"evictions"},
      memcached_statauth |-> {"auth_cmds"},
      memcached_hitpct |-> {"cmd_set", "cmd_get"} ]

\* C1: once the constructor has built the graphs, a graph of the catalog is
\* among them if and only if its name is enabled and the stats they were
\* built from hold every counter of its graph-level requirement; so the
\* connections graph is not built from stats without curr_connections.
C1_GraphIncludedIff ==
    Built =>
      /\ \A g \in GraphNames :
           HasGraph(graphs, g) <=>
             (g \in enabled /\ \A k \in C1_Requires[g] : k \in DOMAIN BuildStats)
      /\ \A i \in 1..Len(graphs) : graphs[i].name \in GraphNames
      /\ "curr_connections" \notin DOMAIN BuildStats
           => ~HasGraph(graphs, "memcached_connections")

\* A build from stats without curr_connections, the connections graph being
\* enabled: it is left out, and the items graph is in.
C1_Witness ==
    /\ pc = "built"
    /\ "memcached_connections" \in enabled
    /\ "curr_connections" \notin DOMAIN BuildStats
    /\ ~HasGraph(graphs, "memcached_connections")
    /\ HasGraph(graphs, "memcached_items")

(***************************************************************************)
(* C2                                                                      *)
(***************************************************************************)
\* C2: within one invocation no step after the constructor changes the
\* graphs or their fields, whatever stats retrieveVals gets.
C2_SchemaFrozen ==
    [][(pc # "start" /\ pc' # "start") => graphs' = graphs]_vars

\* The graphs were built from stats with cmd_get and without cmd_set, the
\* values are set from stats with cmd_set, and there is no reqrate graph
\* and no hitpct graph although both are enabled.
C2_Witness ==
    /\ pc = "done"
    /\ "cmd_get" \in DOMAIN BuildStats
    /\ "cmd_set" \notin DOMAIN BuildStats
    /\ "cmd_set" \in DOMAIN Val(stats)
    /\ {"memcached_reqrate", "memcached_hitpct"} \subseteq enabled
    /\ ~HasGraph(graphs, "memcached_reqrate")
    /\ ~HasGraph(graphs, "memcached_hitpct")
    /\ HasGraph(graphs, "memcached_statget")

(***************************************************************************)
(* C3                                                                      *)
(***************************************************************************)
\* C3 as stated: when getStats() answers that the server is unavailable,
\* the invocation ends in the fatal error with no graph built and no value
\* set.
C3_NoGraphWhenUnavailable ==
    source = "unavailable" =>
      /\ pc = "fatal"
      /\ graphs = <<>>
      /\ vals = <<>>

\* C3 as amended: when getStats() answers that the server is unavailable,
\* the invocation ends in the fatal error and no value is set; no graph is
\* built when no state was restored, and graphs that exist were built from
\* the restored state, before getStats() was called.
C3_FatalNoValues ==
    source = "unavailable" =>
      /\ pc = "fatal"
      /\ error = "Exception"
      /\ vals = <<>>
      /\ _prev_stats = None => graphs = <<>>
      /\ graphs # <<>> => _prev_stats # None /\ store = _prev_stats

\* The server is unavailable to an invocation that restored a state: the
\* error is raised by retrieveVals, after the graphs were built.
C3_Witness ==
    /\ source = "unavailable"
    /\ pc = "fatal"
    /\ _prev_stats # None
    /\ graphs # <<>>
    /\ vals = <<>>

(***************************************************************************)
(* C4                                                                      *)
(***************************************************************************)
\* The pass-through fields of the catalog of the specification, each with
\* its counter.
C4_PassThrough ==
    { <<"memcached_connections", "conn", "curr_connections">>,
      <<"memcached_items", "items", "curr_items">>,
      <<"memcached_memory", "bytes", "bytes">>,
      <<"memcached_connrate", "conn", "total_connections">>,
      <<"memcached_traffic", "rxbytes", "bytes_read">>,
      <<"memcached_traffic", "txbytes", "bytes_written">>,
      <<"memcached_reqrate", "set", "cmd_set">>,
      <<"memcached_reqrate", "get", "cmd_get">>,
      <<"memcached_statget", "hit", "get_hits">>,
      <<"memcached_statget", "miss", "get_misses">>,
      <<"memcached_statset", "hit", "set_hits">>,
      <<"memcached_statset", "miss", "set_misses">>,
      <<"memcached_statdel", "hit", "delete_hits">>,
      <<"memcached_statdel", "miss", "delete_misses">>,
      <<"memcached_statcas", "hit", "cas_hits">>,
      <<"memcached_statcas", "miss", "cas_misses">>,
      <<"memcached_statcas", "badval", "cas_badval">>,
      <<"memcached_statincrdecr", "incr_hit", "incr_hits">>,
      <<"memcached_statincrdecr", "decr_hit", "decr_hits">>,
      <<"memcached_statincrdecr", "incr_miss", "incr_misses">>,
      <<"memcached_statincrdecr", "decr_miss", "decr_misses">>,
      <<"memcached_statevict", "evict", "evictions">>,
      <<"memcached_statevict", "reclaim", "reclaimed">>,
      <<"memcached_statauth", "reqs", "auth_cmds">>,
      <<"memcached_statauth", "errors", "auth_errors">> }

\* C4: when getStats() delivered stats, retrieveVals raises nothing: it
\* sets every field of every graph but the hit percent graph, and a
\* pass-through field has the value of its counter, None ("absent") when
\* stats lacks the counter.
C4_ComputeNeverFails ==
    /\ pc # "failed"
    /\ error \in {"", "Exception"}
    /\ (error = "Exception") <=> (source = "unavailable")
    /\ pc = "done" =>
         /\ \A i \in 1..Len(graphs) :
              graphs[i].name # "memcached_hitpct" =>
                \A j \in 1..Len(graphs[i].fields) :
                    IsSet(graphs[i].name, graphs[i].fields[j])
         /\ \A t \in C4_PassThrough :
              GraphHasField(graphs, t[1], t[2]) =>
                ValueOf(t[1], t[2]) =
                  (IF Present(t[3], Val(stats)) THEN Val(stats)[t[3]]
                   ELSE None)

\* The get rate field is in the graphs, stats lacks cmd_get and the field
\* is absent, while the set rate field of the same graph has its value.
C4_Witness ==
    /\ pc = "done"
    /\ source = "stats"
    /\ GraphHasField(graphs, "memcached_reqrate", "get")
    /\ "cmd_get" \notin DOMAIN Val(stats)
    /\ IsSet("memcached_reqrate", "get")
    /\ ValueOf("memcached_reqrate", "get") = None
    /\ ValueOf("memcached_reqrate", "set") # None
    /\ HasGraph(graphs, "memcached_hitpct")

(***************************************************************************)
(* C5                                                                      *)
(***************************************************************************)
C5_Fields == {"set", "get", "del", "cas", "incr", "decr"}

\* C5: when no stats were restored, retrieveVals leaves every field of the
\* hit percent graph absent.
C5_NoPreviousNoHitPct ==
    (pc = "done" /\ _prev_stats = None) =>
      \A f \in C5_Fields :
          /\ ~IsSet("memcached_hitpct", f)
          /\ ValueOf("memcached_hitpct", f) = None

\* A first invocation whose hit percent graph has its six fields and whose
\* other values are set.
C5_Witness ==
    /\ pc = "done"
    /\ _prev_stats = None
    /\ \A f \in C5_Fields : GraphHasField(graphs, "memcached_hitpct", f)
    /\ ValueOf("memcached_statget", "hit") # None

(***************************************************************************)
(* C6                                                                      *)
(***************************************************************************)
\* The fields of the hit percent graph with their hit and miss counters,
\* from the catalog of the specification.
C6_Pairs ==
    { <<"set", "set_hits", "set_misses">>,
      <<"get", "get_hits", "get_misses">>,
      <<"del", "delete_hits", "delete_misses">>,
      <<"cas", "cas_hits", "cas_misses">>,
      <<"incr", "incr_hits", "incr_misses">>,
      <<"decr", "decr_hits", "decr_misses">> }

\* The stats of this invocation and the restored ones both hold the hit
\* and the miss counter of t.
C6_InBoth(t) ==
    /\ _prev_stats # None
    /\ Present(t[2], Val(stats)) /\ Present(t[2], Val(_prev_stats))
    /\ Present(t[3], Val(stats)) /\ Present(t[3], Val(_prev_stats))

C6_Hits(t) == Val(Val(stats)[t[2]]) - Val(Val(_prev_stats)[t[2]])

C6_Misses(t) == Val(Val(stats)[t[3]]) - Val(Val(_prev_stats)[t[3]])

\* v hundredths is p / q rounded to 2 decimals (q > 0): no number of
\* hundredths is nearer to p / q.
C6_Rounded(v, p, q) ==
    /\ 2 * (v * q - 100 * p) <= q
    /\ 2 * (100 * p - v * q) <= q

\* C6: a field of the hit percent graph whose hit and miss counters are in
\* the restored stats and in the stats of this invocation is set to
\* 100 * hits / total rounded to 2 decimals when total > 0 and to 0 when
\* total = 0, hits and misses being the differences of the counters and
\* total their sum; hits 15 and misses 5 give 75.00.
C6_HitPctValue ==
    /\ (pc = "done" /\ HasGraph(graphs, "memcached_hitpct")) =>
         \A t \in C6_Pairs :
             C6_InBoth(t) =>
               LET total == C6_Hits(t) + C6_Misses(t)
                   v == ValueOf("memcached_hitpct", t[1])
               IN  /\ total >= 0 => IsSet("memcached_hitpct", t[1]) /\ v # None
                   /\ total > 0 => C6_Rounded(Val(v), 100 * C6_Hits(t), total)
                   /\ total = 0 => v = Some(0)
    /\ HitPctValue(25 - 10, 10 - 5) = 7500
    /\ HitPctValue(0, 0) = 0

\* The get field is set to 66.67: 2 hits and 1 miss since the restored
\* stats.
C6_Witness ==
    /\ pc = "done"
    /\ C6_InBoth(<<"get", "get_hits", "get_misses">>)
    /\ C6_Hits(<<"get", "get_hits", "get_misses">>) = 2
    /\ C6_Misses(<<"get", "get_hits", "get_misses">>) = 1
    /\ ValueOf("memcached_hitpct", "get") = Some(6667)

C8_Sums ==
    { <<"memcached_reqrate", "del", {"delete_hits", "delete_misses"}>>,
      <<"memcached_reqrate", "cas", {"cas_hits", "cas_misses", "cas_badval"}>>,
      <<"memcached_reqrate", "incr", {"incr_hits", "incr_misses"}>>,
      <<"memcached_reqrate", "decr", {"decr_hits", "decr_misses"}>>,
      <<"memcached_statget", "total", {"get_hits", "get_misses"}>>,
      <<"memcached_statset", "total", {"set_hits", "set_misses"}>>,
      <<"memcached_statdel", "total", {"delete_hits", "delete_misses"}>>,
      <<"memcached_statcas", "total",
        {"cas_hits", "cas_misses", "cas_badval"}>>,
      <<"memcached_statincrdecr", "total",
        {"incr_hits", "decr_hits", "incr_misses", "decr_misses"}>> }

RECURSIVE C8_Total(_, _)
\* The sum of the counters ks that st holds.
C8_Total(ks, st) ==
    IF ks = {} THEN 0
    ELSE LET k == CHOOSE x \in ks : TRUE
         IN  (IF Present(k, st) THEN Val(st[k]) ELSE 0)
             + C8_Total(ks \ {k}, st)

C9_SetMisses ==
    /\ pc \in {"saved", "done"} =>
         LET st == Val(stats)
             both == Present("cmd_set", st) /\ Present("total_items", st)
         IN  /\ both =>
                  /\ "set_misses" \in DOMAIN st
                  /\ st["set_misses"] =
                       Some(Val(st["cmd_set"]) - Val(st["total_items"]))
             /\ ~both => "set_misses" \notin DOMAIN st
             /\ (both /\ pc = "done"
                      /\ HasGraph(graphs, "memcached_statset")) =>
                  /\ ValueOf("memcached_statset", "hit") = st["total_items"]
                  /\ ValueOf("memcached_statset", "miss") =
                       Some(Val(st["cmd_set"]) - Val(st["total_items"]))
                  /\ ValueOf("memcached_statset", "total") = st["cmd_set"]
    /\ Enrich([k \in {"cmd_set", "total_items"} |->
                 IF k = "cmd_set" THEN Some(100) ELSE Some(90)])["set_misses"]
         = Some(10)

\* The statset graph is in the graphs and its miss field is set to 1.
C9_Witness ==
    /\ pc = "done"
    /\ HasGraph(graphs, "memcached_statset")
    /\ Present("cmd_set", Val(stats))
    /\ Present("total_items", Val(stats))
    /\ ValueOf("memcached_statset", "miss") = Some(1)
    /\ ValueOf("memcached_statset", "total") = Val(stats)["cmd_set"]

(***************************************************************************)
(* C10                                                                     *)
(***************************************************************************)
\* C10 as stated: the state is written at the end of retrieveVals, so until
\* the values are set the state file holds what the constructor restored.
C10_WrittenAtTheEnd ==
    pc \in {"built", "saved"} => store = _prev_stats

\* C10 as amended: the constructor reads the state file before
\* retrieveVals writes it; retrieveVals writes it before it sets any value,
\* and what it writes is its stats with set_hits and set_misses; so the
\* stats an invocation restores are those of the last retrieveVals that
\* got stats.
C10_ReadThenWrite ==
    /\ pc \in {"built", "fatal"} =>
         /\ _prev_stats = lastStats
         /\ store = lastStats
    /\ pc \in {"saved", "done", "failed"} =>
         /\ stats # None
         /\ store = stats
         /\ lastStats = stats
    /\ pc = "saved" => vals = <<>>
    /\ pc = "start" => store = lastStats

\* A second invocation that restored stats and has written other stats,
\* before any value is set.
C10_Witness ==
    /\ pc = "saved"
    /\ _prev_stats # None
    /\ store # _prev_stats
    /\ store = stats
    /\ vals = <<>>

(***************************************************************************)
(* C11: the conditional fields of an included graph.                       *)
(***************************************************************************)
\* The fields the constructor adds under a test of their own that the test
\* of the graph does not already decide: <<graph, field, counter tested>>.
C11_Conditional ==
    { <<"memcached_reqrate", "del", "delete_hits">>,
      <<"memcached_reqrate", "cas", "cas_hits">>,
      <<"memcached_reqrate", "incr", "incr_hits">>,
      <<"memcached_reqrate", "decr", "decr_hits">>,
      <<"memcached_statevict", "reclaim", "reclaimed">>,
      <<"memcached_hitpct", "del", "delete_hits">>,
      <<"memcached_hitpct", "cas", "cas_hits">>,
      <<"memcached_hitpct", "incr", "incr_hits">>,
      <<"memcached_hitpct", "decr", "decr_hits">> }

\* The two hitpct fields the claim also puts under their hit counter.
C11_SetGet ==
    { <<"memcached_hitpct", "set", "set_hits">>,
      <<"memcached_hitpct", "get", "get_hits">> }

\* Field t[2] of the included graph t[1] is there iff the build snapshot
\* holds counter t[3].
C11_Gated(t) ==
    HasGraph(graphs, t[1]) =>
        (GraphHasField(graphs, t[1], t[2]) <=> In(t[3], BuildStats))

\* C11 as stated: within an included graph, reqrate del/cas/incr/decr,
\* statevict reclaim and each of the six hitpct fields, set and get among
\* them, is included iff its matching hit counter (reclaimed for reclaim) is
\* present in the build snapshot.
C11_HitCounterGatesEveryField ==
    Built => \A t \in C11_Conditional \cup C11_SetGet : C11_Gated(t)

\* C11 as amended: reqrate del/cas/incr/decr, statevict reclaim and hitpct
\* del/cas/incr/decr are included iff delete_hits/cas_hits/incr_hits/
\* decr_hits (reclaimed for reclaim) is present in the build snapshot; the
\* hitpct fields set and get are in every included hitpct graph, whether
\* or not the build snapshot holds set_hits or get_hits.
C11_FieldIncludedIff ==
    Built =>
        /\ \A t \in C11_Conditional : C11_Gated(t)
        /\ HasGraph(graphs, "memcached_hitpct") =>
               /\ GraphHasField(graphs, "memcached_hitpct", "set")
               /\ GraphHasField(graphs, "memcached_hitpct", "get")

\* The constructor built hitpct, reqrate and statevict from a snapshot
\* without cas_hits: the fields of cas are left out, those
\* of del and reclaim are in.
C11_Witness ==
    /\ Built
    /\ HasGraph(graphs, "memcached_hitpct")
    /\ HasGraph(graphs, "memcached_reqrate")
    /\ HasGraph(graphs, "memcached_statevict")
    /\ ~In("cas_hits", BuildStats)
    /\ ~GraphHasField(graphs, "memcached_hitpct", "cas")
    /\ ~GraphHasField(graphs, "memcached_reqrate", "cas")
    /\ GraphHasField(graphs, "memcached_hitpct", "del")
    /\ GraphHasField(graphs, "memcached_reqrate", "del")
    /\ GraphHasField(graphs, "memcached_statevict", "reclaim")

(***************************************************************************)
(* C12: every setGraphVal call is for a field of the graphs built.         *)
(***************************************************************************)
\* The setGraphVal calls of this retrieveVals, those after a call that
\* raises included.
C12_Calls == Calls(graphs, Val(stats), _prev_stats)

\* C12: whatever state was restored (none, the empty dictionary, any
\* snapshot), whatever the current snapshot and the enabled graphs, every
\* value assignment of retrieveVals, those of the hitpct loop included, is
\* for a (graph, field) pair of the graphs the constructor built, so that
\* setGraphVal never fails for want of the field.
C12_AssignsOnlySchemaFields ==
    /\ pc \in {"saved", "done", "failed"} =>
          \A calls \in {C12_Calls} : \A i \in 1..Len(calls) :
              GraphHasField(graphs, calls[i].graph, calls[i].field)
    /\ error # "AttributeError"

\* retrieveVals returned with a restored state that has no cas_hits, so
\* that hitpct has no field cas, and with current stats that hold cas_hits
\* and cas_misses: the loop set del and made no call for cas.
C12_Witness ==
    /\ pc = "done"
    /\ _prev_stats # None
    /\ HasGraph(graphs, "memcached_hitpct")
    /\ ~GraphHasField(graphs, "memcached_hitpct", "cas")
    /\ In("cas_hits", Val(stats))
    /\ In("cas_misses", Val(stats))
    /\ IsSet("memcached_hitpct", "del")
    /\ ~IsSet("memcached_hitpct", "cas")

====
